---- MODULE Spec2Model ----
(***************************************************************************)
(* Model of azure/cli/command_modules/monitor/actions.py: the argparse     *)
(* actions and value parsers of the monitor command module.                *)
(*                                                                         *)
(* A Python str is a sequence of one-character strings, a token list a     *)
(* sequence of such sequences, None the record [some |-> FALSE].  A call   *)
(* returns [err, val]: err = "none" and the value, or the exception raised *)
(* ("CLIError:<message>", "ValueError", "KeyError", "IndexError").         *)
(***************************************************************************)
EXTENDS Integers, Sequences, FiniteSets, TLC

VARIABLES op, args, ret, namespace

vars == <<op, args, ret, namespace>>

\* ------------------------------------------------------------------ values

None == [some |-> FALSE]

Some(v) == [some |-> TRUE, val |-> v]

Ok(v) == [err |-> "none", val |-> v]

Raise(e) == [err |-> e, val |-> None]

NoCall == [err |-> "nocall", val |-> None]

\* ----------------------------------------------------------------- strings

UpperChars == <<"A","B","C","D","E","F","G","H","I","J","K","L","M",
                "N","O","P","Q","R","S","T","U","V","W","X","Y","Z">>

LowerChars == <<"a","b","c","d","e","f","g","h","i","j","k","l","m",
                "n","o","p","q","r","s","t","u","v","w","x","y","z">>

Digits == <<"0","1","2","3","4","5","6","7","8","9">>

IndexIn(c, chars) == CHOOSE i \in 1..Len(chars) : chars[i] = c

IsIn(c, chars) == \E i \in 1..Len(chars) : chars[i] = c

\* str.lower() and str.upper(), one character at a time
LowerChar(c) == IF IsIn(c, UpperChars) THEN LowerChars[IndexIn(c, UpperChars)] ELSE c

UpperChar(c) == IF IsIn(c, LowerChars) THEN UpperChars[IndexIn(c, LowerChars)] ELSE c

lower(s) == [i \in 1..Len(s) |-> LowerChar(s[i])]

upper(s) == [i \in 1..Len(s) |-> UpperChar(s[i])]

IsDigit(c) == IsIn(c, Digits)

\* value[a:b] for 0 <= a <= b <= len(value)
Slice(s, a, b) == IF b <= a THEN <<>> ELSE SubSeq(s, a + 1, b)

\* the 1-based positions of the separator c in s
SepPositions(s, c) == {i \in 1..Len(s) : s[i] = c}

RECURSIVE SplitFrom(_, _, _)
SplitFrom(s, c, from) ==
    LET later == {i \in SepPositions(s, c) : i >= from}
    IN  IF later = {} THEN <<SubSeq(s, from, Len(s))>>
        ELSE LET i == CHOOSE k \in later : \A j \in later : k <= j
             IN  <<SubSeq(s, from, i - 1)>> \o SplitFrom(s, c, i + 1)

\* s.split(c): every occurrence of c separates, empty pieces are kept
split(s, c) == SplitFrom(s, c, 1)

\* s.split(c) where s.split(c, 1) was meant: every occurrence separates
split1_unbounded(s, c) == SplitFrom(s, c, 1)

\* s.split(c, 1): at most one split, on the first occurrence of c
split1(s, c) ==
    IF SepPositions(s, c) = {} THEN <<s>>
    ELSE LET i == CHOOSE k \in SepPositions(s, c) : \A j \in SepPositions(s, c) : k <= j
         IN  <<SubSeq(s, 1, i - 1), SubSeq(s, i + 1, Len(s))>>

RECURSIVE join(_, _)
\* sep.join(tokens)
join(sep, tokens) ==
    IF tokens = <<>> THEN <<>>
    ELSE IF Len(tokens) = 1 THEN tokens[1]
    ELSE tokens[1] \o sep \o join(sep, Tail(tokens))

endswith(s, c) == Len(s) > 0 /\ s[Len(s)] = c

RECURSIVE DigitsValue(_)
DigitsValue(s) ==
    IF s = <<>> THEN 0
    ELSE 10 * DigitsValue(SubSeq(s, 1, Len(s) - 1)) + (IndexIn(s[Len(s)], Digits) - 1)

AllDigits(s) == Len(s) > 0 /\ \A i \in 1..Len(s) : IsDigit(s[i])

Unsigned(s) == IF Len(s) > 0 /\ s[1] \in {"+", "-"} THEN Tail(s) ELSE s

\* int(s) accepts an optional sign and decimal digits (the inputs drawn here hold
\* no whitespace and no underscore); anything else raises ValueError
IsInt(s) == AllDigits(Unsigned(s))

int(s) == IF Len(s) > 0 /\ s[1] = "-" THEN 0 - DigitsValue(Unsigned(s))
          ELSE DigitsValue(Unsigned(s))

RECURSIVE NatStr(_)
NatStr(n) == IF n < 10 THEN <<Digits[n + 1]>> ELSE NatStr(n \div 10) \o <<Digits[(n % 10) + 1]>>

\* str(n) and '{}'.format(n) of an integer
str(n) == IF n < 0 THEN <<"-">> \o NatStr(0 - n) ELSE NatStr(n)

\* the sequences of at most n elements of S
RECURSIVE SeqsUpTo(_, _)
SeqsUpTo(S, n) ==
    IF n = 0 THEN {<<>>}
    ELSE LET shorter == SeqsUpTo(S, n - 1)
         IN  shorter \cup {Append(s, x) : s \in shorter, x \in S}

RECURSIVE Concat(_)
Concat(parts) == IF parts = <<>> THEN <<>> ELSE parts[1] \o Concat(Tail(parts))

\* ------------------------------------------------------------- period_type

NoMatch == <<-1, -1>>

\* the eight groups of the regex: a literal, or \d+ followed by a letter
RegexGroups == <<[digits |-> FALSE, ch |-> "p"], [digits |-> TRUE, ch |-> "y"],
                 [digits |-> TRUE, ch |-> "m"],  [digits |-> TRUE, ch |-> "d"],
                 [digits |-> FALSE, ch |-> "t"], [digits |-> TRUE, ch |-> "h"],
                 [digits |-> TRUE, ch |-> "m"],  [digits |-> TRUE, ch |-> "s"]>>

\* the length of the run of digits of s from offset pos
RECURSIVE DigitRun(_, _)
DigitRun(s, pos) ==
    IF pos < Len(s) /\ IsDigit(s[pos + 1]) THEN 1 + DigitRun(s, pos + 1) ELSE 0

\* the offset after group g matched at offset pos, or -1: \d+ is greedy and gives
\* digits back only to a following digit, which is never the group's letter
GroupEnd(s, g, pos) ==
    LET run == IF RegexGroups[g].digits THEN DigitRun(s, pos) ELSE 0
        at  == pos + run
    IN  IF RegexGroups[g].digits /\ run = 0 THEN -1
        ELSE IF at < Len(s) /\ s[at + 1] = RegexGroups[g].ch THEN at + 1
        ELSE -1

\* the offset the match has reached after groups 1..g: each optional group is
\* taken when it matches (greedy ?), and nothing after it can fail
RECURSIVE MatchedTo(_, _)
MatchedTo(s, g) ==
    IF g = 0 THEN 0
    ELSE LET pos == MatchedTo(s, g - 1)
             e   == GroupEnd(s, g, pos)
         IN  IF e = -1 THEN pos ELSE e

\* re.match(regex, s).regs: regs[0] the whole match, regs[g] group g or (-1, -1)
regs(s) ==
    [g \in 0..8 |->
        IF g = 0 THEN <<0, MatchedTo(s, 8)>>
        ELSE LET pos == MatchedTo(s, g - 1)
                 e   == GroupEnd(s, g, pos)
             IN  IF e = -1 THEN NoMatch ELSE <<pos, e>>]

_get_substring(value, indices) ==
    IF indices = NoMatch THEN <<>> ELSE Slice(value, indices[1], indices[2])

\* the three-slot format of the shorthand form, then .upper()
ShorthandFormat(days, minutes, hours, seconds) ==
    upper(<<"P">> \o days \o <<"T">> \o minutes \o hours \o seconds)

\* period_type with the passthrough normalised to upper case
period_type_upper(value) ==
    LET match == regs(lower(value))
    IN  IF match[0] # <<0, Len(value)>> THEN Raise("ValueError")
        ELSE IF match[1] # NoMatch /\ match[5] # NoMatch THEN Ok(upper(value))
        ELSE LET days    == _get_substring(value, match[4])
                 m6      == _get_substring(value, match[6])
                 minutes == IF m6 # <<>> THEN m6 ELSE _get_substring(value, match[3])
                 hours   == _get_substring(value, match[7])
                 seconds == _get_substring(value, match[8])
             IN  Ok(ShorthandFormat(days, minutes, hours, seconds))

period_type(value) ==
    LET match == regs(lower(value))
    IN  IF match[0] # <<0, Len(value)>> THEN Raise("ValueError")
        ELSE IF match[1] # NoMatch /\ match[5] # NoMatch THEN Ok(value)
        ELSE LET days    == _get_substring(value, match[4])
                 m6      == _get_substring(value, match[6])
                 minutes == IF m6 # <<>> THEN m6 ELSE _get_substring(value, match[3])
                 hours   == _get_substring(value, match[7])
                 seconds == _get_substring(value, match[8])
             IN  Ok(ShorthandFormat(days, minutes, hours, seconds))

\* ----------------------------------------------------- the namespace

EmptyNamespace ==
    [description |-> None, condition |-> None, scale |-> None, add_actions |-> None]

\* ---------------------------------------------- specification: period_type

MaxParts == 3

\* the pieces the duration inputs are built from
PeriodParts == {<<"p">>, <<"P">>, <<"t">>, <<"T">>, <<"1","y">>, <<"2","m">>, <<"2","M">>,
                <<"3","d">>, <<"4","h">>, <<"5","s">>, <<"1">>, <<"x">>}

\* one piece or none for each component of the grammar, in its order
OrderedPeriods ==
    {Concat(<<p, y, m, d, t, h, n, s>>) :
        p \in {<<>>, <<"p">>, <<"P">>}, y \in {<<>>, <<"1","y">>},
        m \in {<<>>, <<"2","m">>, <<"2","M">>}, d \in {<<>>, <<"3","d">>},
        t \in {<<>>, <<"t">>, <<"T">>}, h \in {<<>>, <<"4","h">>},
        n \in {<<>>, <<"2","m">>}, s \in {<<>>, <<"5","S">>}}

\* those, and every concatenation of at most n pieces in any order
PeriodInputs(n) == OrderedPeriods \cup {Concat(parts) : parts \in SeqsUpTo(PeriodParts, n)}

InitPeriod ==
    /\ op = "init"
    /\ args \in PeriodInputs(MaxParts)
    /\ ret = NoCall
    /\ namespace = EmptyNamespace

CallPeriodType ==
    /\ op = "init"
    /\ op' = "period_type"
    /\ ret' = period_type(args)
    /\ UNCHANGED <<args, namespace>>

NextPeriod == CallPeriodType

SpecPeriod == InitPeriod /\ [][NextPeriod]_vars

\* the duration grammar, stated as a derivation: each of the eight components is
\* absent or present, in order, and together they cover the whole string
GrammarLetters == <<"p", "y", "m", "d", "t", "h", "m", "s">>

IsMarker(g) == g \in {1, 5}

IsComponent(seg, g) ==
    IF IsMarker(g) THEN seg = <<GrammarLetters[g]>>
    ELSE /\ Len(seg) >= 2
         /\ seg[Len(seg)] = GrammarLetters[g]
         /\ \A i \in 1..(Len(seg) - 1) : IsDigit(seg[i])

RECURSIVE Derives(_, _, _)
Derives(s, g, pos) ==
    IF g > 8 THEN pos = Len(s)
    ELSE \/ Derives(s, g + 1, pos)
         \/ \E e \in (pos + 1)..Len(s) :
               IsComponent(SubSeq(s, pos + 1, e), g) /\ Derives(s, g + 1, e)

MatchesDurationGrammar(v) == Derives(lower(v), 1, 0)

HasMarker(v, c) == \E i \in 1..Len(v) : LowerChar(v[i]) = c

IsoForm(v) == MatchesDurationGrammar(v) /\ HasMarker(v, "p") /\ HasMarker(v, "t")

\* C5: a string that matches the duration grammar, whatever its case, over its
\* whole length and holds both the P and the T marker is returned by period_type
\* unchanged, character for character.
C5_PassthroughVerbatim ==
    (op = "period_type" /\ IsoForm(args)) => (ret.err = "none" /\ ret.val = args)

C5_Witness ==
    /\ op = "period_type"
    /\ args = <<"P", "1", "y", "2", "M", "3", "d", "t", "4", "h", "2", "m", "5", "S">>
    /\ ret.err = "none"
    /\ ret.val = args

\* the shorthand result as the claim words it: minutes from the M group after T,
\* else from the M group before T; hours from the H group
ClaimedShorthand(v) ==
    LET match   == regs(lower(v))
        days    == _get_substring(v, match[4])
        after   == _get_substring(v, match[7])
        minutes == IF after # <<>> THEN after ELSE _get_substring(v, match[3])
        hours   == _get_substring(v, match[6])
        seconds == _get_substring(v, match[8])
    IN  upper(<<"P">> \o days \o <<"T">> \o minutes \o hours \o seconds)

\* C6: for an input that matches the grammar and does not hold both markers,
\* period_type returns upper('P' + days + 'T' + minutes + hours + seconds) with
\* days the D group, hours the H group, seconds the S group and minutes the M
\* group after T, or else the M group before T.
C6_ShorthandAsClaimed ==
    (op = "period_type" /\ MatchesDurationGrammar(args) /\ ~IsoForm(args))
        => (ret.err = "none" /\ ret.val = ClaimedShorthand(args))

\* a duration as the data model states it: 'P', then Y, M, D components in that
\* order, then 'T', then H, M, S components in that order, each at most once
DurationLetters == <<"P", "Y", "M", "D", "T", "H", "M", "S">>

RECURSIVE DerivesDuration(_, _, _)
DerivesDuration(s, g, pos) ==
    IF g > 8 THEN pos = Len(s)
    ELSE IF IsMarker(g)
         THEN pos < Len(s) /\ s[pos + 1] = DurationLetters[g] /\ DerivesDuration(s, g + 1, pos + 1)
         ELSE \/ DerivesDuration(s, g + 1, pos)
              \/ \E e \in (pos + 2)..Len(s) :
                    /\ s[e] = DurationLetters[g]
                    /\ \A i \in (pos + 1)..(e - 1) : IsDigit(s[i])
                    /\ DerivesDuration(s, g + 1, e)

WellFormedDuration(d) == DerivesDuration(d, 1, 0)

\* C8: every value period_type returns begins with upper-case 'P', holds a 'T',
\* and has only Y/M/D components before it and only H/M/S components after it,
\* in that order and each at most once.
C8_DurationInvariant ==
    (op = "period_type" /\ ret.err = "none") => WellFormedDuration(ret.val)

\* ----------------------------------------------------- timezone_offset_type

MaxOffsetHour == 14

MinOffsetHour == -12

TwoDigitHour == 10

OffsetOutOfRange == "CLIError:Offset out of range: -12 to +14"

\* the sign, the padding and the minute of an hour that is in range
FormatOffset(hour, minute) ==
    LET value == IF hour >= 0 /\ hour < TwoDigitHour THEN <<"+", "0">> \o str(hour)
                 ELSE IF hour >= TwoDigitHour THEN <<"+">> \o str(hour)
                 ELSE IF hour < 0 /\ hour > 0 - TwoDigitHour THEN <<"-", "0">> \o str((0 - 1) * hour)
                 ELSE str(hour)
    IN  IF minute.some /\ minute.val # <<>> THEN value \o <<":">> \o minute.val ELSE value

\* timezone_offset_type with the upper limit itself out of range
timezone_offset_type_strict(value) ==
    LET pieces == split(value, ":")
        hour   == IF Len(pieces) = 2 THEN pieces[1] ELSE value
        minute == IF Len(pieces) = 2 THEN Some(pieces[2]) ELSE None
    IN  IF ~IsInt(hour) THEN Raise("ValueError")
        ELSE IF int(hour) >= MaxOffsetHour \/ int(hour) < MinOffsetHour THEN Raise(OffsetOutOfRange)
        ELSE Ok(FormatOffset(int(hour), minute))

\* unpacking the split into (hour, minute) raises ValueError unless it has exactly
\* two pieces, and then the whole value is the hour; int(hour) raises ValueError
timezone_offset_type(value) ==
    LET pieces == split(value, ":")
        hour   == IF Len(pieces) = 2 THEN pieces[1] ELSE value
        minute == IF Len(pieces) = 2 THEN Some(pieces[2]) ELSE None
    IN  IF ~IsInt(hour) THEN Raise("ValueError")
        ELSE IF int(hour) > MaxOffsetHour \/ int(hour) < MinOffsetHour THEN Raise(OffsetOutOfRange)
        ELSE Ok(FormatOffset(int(hour), minute))

\* ------------------------------------- specification: timezone_offset_type

MaxHourDigits == 2

DigitSet == {Digits[i] : i \in 1..Len(Digits)}

\* signed runs of at most n digits, and three strings that are no integer
HourTexts(n) ==
    {sign \o ds : sign \in {<<>>, <<"-">>, <<"+">>}, ds \in SeqsUpTo(DigitSet, n) \ {<<>>}}
        \cup {<<>>, <<"x">>, <<"-">>}

MinuteTexts == {<<"3", "0">>, <<"0", "0">>, <<"5">>, <<"x", "x">>, <<>>, <<"1", ":", "2">>}

OffsetInputs(n) ==
    HourTexts(n) \cup {h \o <<":">> \o m : h \in HourTexts(n), m \in MinuteTexts}

InitOffset ==
    /\ op = "init"
    /\ args \in OffsetInputs(MaxHourDigits)
    /\ ret = NoCall
    /\ namespace = EmptyNamespace

CallTimezoneOffsetType ==
    /\ op = "init"
    /\ op' = "timezone_offset_type"
    /\ ret' = timezone_offset_type(args)
    /\ UNCHANGED <<args, namespace>>

NextOffset == CallTimezoneOffsetType

SpecOffset == InitOffset /\ [][NextOffset]_vars

\* the inputs of the form H or H:M: H a signed run of digits, M a non-empty
\* string without a colon
HourOf(v) == IF IsIn(":", v) THEN split1(v, ":")[1] ELSE v

MinuteOf(v) == IF IsIn(":", v) THEN <<":">> \o split1(v, ":")[2] ELSE <<>>

IsOffsetForm(v) ==
    /\ IsInt(HourOf(v))
    /\ IsIn(":", v) => (Len(MinuteOf(v)) > 1 /\ ~IsIn(":", Tail(MinuteOf(v))))

Magnitude(h) == IF h < 0 THEN 0 - h ELSE h

ClaimedOffset(v) ==
    LET h    == int(HourOf(v))
        sign == IF h >= 0 THEN <<"+">> ELSE <<"-">>
        pad  == IF Magnitude(h) < 10 THEN <<"0">> ELSE <<>>
    IN  sign \o pad \o NatStr(Magnitude(h)) \o MinuteOf(v)

\* C7: for an input H or H:M with H an integer, timezone_offset_type fails with
\* the out-of-range error when H > 14 or H < -12, and otherwise returns the
\* explicit sign, the hour magnitude padded to two digits when below 10, and
\* ':' with the minute string unchanged when a minute was given.
C7_OffsetFormat ==
    (op = "timezone_offset_type" /\ IsOffsetForm(args)) =>
        IF int(HourOf(args)) > 14 \/ int(HourOf(args)) < -12
        THEN ret.err = OffsetOutOfRange
        ELSE ret.err = "none" /\ ret.val = ClaimedOffset(args)

C7_Witness ==
    /\ op = "timezone_offset_type"
    /\ args = <<"1", "4", ":", "3", "0">>
    /\ ret.err = "none"
    /\ ret.val = <<"+", "1", "4", ":", "3", "0">>

\* ------------------------------------------------------------ lookup maps

\* The maps of monitor.util are consumed, not defined, here: their keys are the
\* ones the usage messages list, and the value a map holds for a key is opaque.
OperatorKeys == {<<">">>, <<">", "=">>, <<"<">>, <<"<", "=">>}

AggregationKeys == {<<"a","v","g">>, <<"m","i","n">>, <<"m","a","x">>,
                    <<"t","o","t","a","l">>, <<"l","a","s","t">>}

AutoscaleOperatorKeys == OperatorKeys \cup {<<"=", "=">>, <<"!", "=">>}

AutoscaleAggregationKeys == {<<"a","v","g">>, <<"m","i","n">>, <<"m","a","x">>,
                             <<"t","o","t","a","l">>, <<"c","o","u","n","t">>}

ScaleDirectionKeys == {<<"i","n">>, <<"o","u","t">>, <<"t","o">>}

MapValue(map, key) == [map |-> map, key |-> key]

\* --------------------------------------------------------- ConditionAction

ConditionUsage ==
    "CLIError:usage error: --condition METRIC {>,>=,<,<=} THRESHOLD {avg,min,max,total,last} DURATION"

\* the CMD.exe workaround: a single token is split again on spaces
Resplit(values) == IF Len(values) = 1 THEN split(values[1], " ") ELSE values

\* values[-k]
FromEnd(values, k) == values[Len(values) - k + 1]

\* the metric name anchored at the left: the first token alone
MetricNameFirstToken(values) == values[1]

\* ' '.join(values[:-4])
MetricName(values) == join(<<" ">>, SubSeq(values, 1, Len(values) - 4))

\* the description overwritten by every invocation
DefaultDescriptionAlways(ns, values) == Some(join(<<" ">>, values))

\* the description after the default: set only when it is None
DefaultDescription(ns, values) ==
    IF ns.description = None THEN Some(join(<<" ">>, values)) ELSE ns.description

ThresholdRuleCondition(operator, threshold, metric, window, aggregation) ==
    [operator |-> operator, threshold |-> threshold, data_source |-> metric,
     window_size |-> window, time_aggregation |-> aggregation]

RuleMetricDataSource(resource_uri, metric_name) ==
    [resource_uri |-> resource_uri, metric_name |-> metric_name]

\* the namespace and the outcome of ConditionAction.__call__(namespace, values)
ConditionAction(ns, values) ==
    LET ns1  == [ns EXCEPT !.description = DefaultDescription(ns, values)]
        vals == Resplit(values)
    IN  IF Len(vals) < 5 THEN [namespace |-> ns1, ret |-> Raise(ConditionUsage)]
        ELSE IF FromEnd(vals, 4) \notin OperatorKeys
             THEN [namespace |-> ns1, ret |-> Raise("KeyError")]
        ELSE IF ~IsInt(FromEnd(vals, 3))
             THEN [namespace |-> ns1, ret |-> Raise("ValueError")]
        ELSE IF lower(FromEnd(vals, 2)) \notin AggregationKeys
             THEN [namespace |-> ns1, ret |-> Raise("KeyError")]
        ELSE IF period_type(FromEnd(vals, 1)).err # "none"
             THEN [namespace |-> ns1, ret |-> Raise("ValueError")]
        ELSE LET condition ==
                     ThresholdRuleCondition(
                         MapValue("operator", FromEnd(vals, 4)),
                         int(FromEnd(vals, 3)),
                         RuleMetricDataSource(None, MetricName(vals)),
                         period_type(FromEnd(vals, 1)).val,
                         MapValue("aggregation", lower(FromEnd(vals, 2))))
             IN  [namespace |-> [ns1 EXCEPT !.condition = Some(condition)],
                  ret |-> Ok(None)]

\* ------------------------------------------- the condition token sequences

MaxNameWords == 2

NameWords == <<<<"c","p","u">>, <<"p","e","r","c","e","n","t","a","g","e">>, <<"u","s","e","d">>,
               <<"n","o","w">>>>

OperatorTokens == {<<">">>, <<"=", "=">>, <<"i","s">>}

ThresholdTokens == {<<"8","0">>, <<"-","5">>, <<"h","i","g","h">>}

AggregationTokens == {<<"a","v","g">>, <<"A","v","g">>, <<"c","o","u","n","t">>, <<"l","a","s","t">>,
                      <<"p","9","9">>}

WindowTokens == {<<"5","m">>, <<"P","T","1","H">>, <<"s","o","o","n">>}

\* n metric name words, then operator, threshold, aggregation and window tokens
LongConditions(n) ==
    {SubSeq(NameWords, 1, n) \o <<o, t, a, w>> :
        o \in OperatorTokens, t \in ThresholdTokens, a \in AggregationTokens, w \in WindowTokens}

\* every tail of those: shorter names, no name, fewer than four fields, nothing
TokenConditions(n) == {SubSeq(c, i, Len(c)) : c \in LongConditions(n), i \in 1..(n + 5)}

\* those, and the same quoted: one token holding the whole expression
ConditionInputs(n) == TokenConditions(n) \cup {<<join(<<" ">>, c)>> : c \in TokenConditions(n)}

PresetDescription == Some(<<"m","y"," ","r","u","l","e">>)

PresetCondition ==
    Some(ThresholdRuleCondition(MapValue("operator", <<"<">>), 1,
                                RuleMetricDataSource(None, <<"o","l","d">>),
                                <<"P","T","1","M">>, MapValue("aggregation", <<"m","i","n">>)))

\* the namespace as the parser hands it over: --description and an earlier
\* --condition may or may not have been seen
ConditionNamespaces ==
    {[EmptyNamespace EXCEPT !.description = d, !.condition = c] :
        d \in {None, PresetDescription}, c \in {None, PresetCondition}}

\* ------------------------------------------ specification: ConditionAction

InitCondition ==
    /\ op = "init"
    /\ args \in ConditionInputs(MaxNameWords)
    /\ ret = NoCall
    /\ namespace \in ConditionNamespaces

CallConditionAction ==
    /\ op = "init"
    /\ op' = "ConditionAction"
    /\ namespace' = ConditionAction(namespace, args).namespace
    /\ ret' = ConditionAction(namespace, args).ret
    /\ UNCHANGED args

NextCondition == CallConditionAction

SpecCondition == InitCondition /\ [][NextCondition]_vars

\* the fields of a condition the last four tokens and the tokens before them give
ValidConditionTokens(toks) ==
    /\ Len(toks) >= 5
    /\ toks[Len(toks) - 3] \in OperatorKeys
    /\ IsInt(toks[Len(toks) - 2])
    /\ lower(toks[Len(toks) - 1]) \in AggregationKeys
    /\ MatchesDurationGrammar(toks[Len(toks)])

RightAnchored(c, toks) ==
    /\ c.data_source.metric_name = join(<<" ">>, [i \in 1..(Len(toks) - 4) |-> toks[i]])
    /\ c.operator = MapValue("operator", toks[Len(toks) - 3])
    /\ c.threshold = int(toks[Len(toks) - 2])
    /\ c.time_aggregation = MapValue("aggregation", lower(toks[Len(toks) - 1]))
    /\ c.window_size = period_type(toks[Len(toks)]).val

\* C2: ConditionAction splits a single token on spaces; with fewer than 5 tokens
\* it fails with the usage error and sets no condition; with an operator and an
\* aggregation of the maps, an integer threshold and a well-formed window it sets
\* the condition whose last four tokens are operator, threshold, aggregation and
\* window and whose metric name is the tokens before them joined by single spaces.
C2_RightAnchored ==
    [][op' = "ConditionAction" =>
          LET toks == IF Len(args') = 1 THEN split(args'[1], " ") ELSE args'
          IN  /\ Len(toks) < 5 =>
                    (ret'.err = ConditionUsage /\ namespace'.condition = namespace.condition)
              /\ ValidConditionTokens(toks) =>
                    /\ ret'.err = "none"
                    /\ namespace'.condition.some
                    /\ RightAnchored(namespace'.condition.val, toks)]_vars

C2_Witness ==
    /\ op = "ConditionAction"
    /\ args = <<<<"c","p","u">>, <<"p","e","r","c","e","n","t","a","g","e">>, <<">">>,
                <<"8","0">>, <<"a","v","g">>, <<"5","m">>>>
    /\ namespace.condition.some
    /\ namespace.condition.val.data_source.metric_name =
           <<"c","p","u"," ","p","e","r","c","e","n","t","a","g","e">>
    /\ namespace.condition.val.threshold = 80
    /\ namespace.condition.val.window_size = <<"P","T","5","M">>

\* --------------------------- specification: ConditionAction, invoked again

SequenceConditions ==
    {<<<<"c","p","u">>, <<"p","e","r","c","e","n","t","a","g","e">>, <<">">>, <<"8","0">>,
       <<"a","v","g">>, <<"5","m">>>>,
     <<<<"c","p","u"," ","p","e","r","c","e","n","t","a","g","e"," ",">"," ","8","0"," ",
         "a","v","g"," ","5","m">>>>,
     <<<<"u","s","e","d">>, <<"<","=">>, <<"-","5">>, <<"L","a","s","t">>, <<"P","T","1","H">>>>,
     <<<<"c","p","u">>, <<">">>, <<"8","0">>>>,
     <<<<"c","p","u"," ",">"," ","8","0">>>>,
     <<<<"c","p","u">>, <<"=","=">>, <<"8","0">>, <<"a","v","g">>, <<"5","m">>>>,
     <<<<"c","p","u">>, <<">">>, <<"h","i","g","h">>, <<"a","v","g">>, <<"5","m">>>>,
     <<<<"c","p","u">>, <<">">>, <<"8","0">>, <<"a","v","g">>, <<"s","o","o","n">>>>,
     <<<<"c","p","u">>, <<">">>, <<"8","0">>, <<"c","o","u","n","t">>, <<"5","m">>>>,
     <<>>}

InitConditionSequence ==
    /\ op = "init"
    /\ args = <<>>
    /\ ret = NoCall
    /\ namespace \in {EmptyNamespace, [EmptyNamespace EXCEPT !.description = PresetDescription]}

InvokeConditionAction(values) ==
    /\ op' = "ConditionAction"
    /\ args' = values
    /\ namespace' = ConditionAction(namespace, values).namespace
    /\ ret' = ConditionAction(namespace, values).ret

NextConditionSequence == \E values \in SequenceConditions : InvokeConditionAction(values)

SpecConditionSequence == InitConditionSequence /\ [][NextConditionSequence]_vars

\* C10: an invocation of ConditionAction changes the description only when it is
\* unset, and then to the tokens as supplied joined by spaces; a description that
\* is set is never modified.  The default is written by a failing invocation too,
\* while the condition is changed only by a successful one.
C10_DescriptionDefault ==
    [][op' = "ConditionAction" =>
          /\ namespace.description.some => namespace'.description = namespace.description
          /\ ~namespace.description.some =>
                 namespace'.description = Some(join(<<" ">>, args'))
          /\ ret'.err # "none" => namespace'.condition = namespace.condition]_vars

C10_Witness ==
    /\ op = "ConditionAction"
    /\ args = <<<<"c","p","u">>, <<"=","=">>, <<"8","0">>, <<"a","v","g">>, <<"5","m">>>>
    /\ ret.err = "KeyError"
    /\ namespace.description =
           Some(<<"c","p","u"," ","=","="," ","8","0"," ","a","v","g"," ","5","m">>)
    /\ namespace.condition = None

\* ------------------------------------------------ AutoscaleConditionAction

AutoscaleConditionUsage ==
    "CLIError:usage error: --condition METRIC {==,!=,>,>=,<,<=} THRESHOLD {avg,min,max,total,count} PERIOD"

MetricTrigger(metric_name, metric_resource_uri, time_grain, statistic, time_window, time_aggregation, operator, threshold) ==
    [metric_name |-> metric_name, metric_resource_uri |-> metric_resource_uri,
     time_grain |-> time_grain, statistic |-> statistic, time_window |-> time_window,
     time_aggregation |-> time_aggregation, operator |-> operator, threshold |-> threshold]

\* the namespace and the outcome of AutoscaleConditionAction.__call__: the slice
\* values[0:-4] never fails, values[-4] raises IndexError below four tokens, and
\* only IndexError and KeyError are turned into the usage error
AutoscaleConditionAction(ns, values) ==
    LET vals == Resplit(values)
    IN  IF Len(vals) < 4 THEN [namespace |-> ns, ret |-> Raise(AutoscaleConditionUsage)]
        ELSE IF FromEnd(vals, 4) \notin AutoscaleOperatorKeys
             THEN [namespace |-> ns, ret |-> Raise(AutoscaleConditionUsage)]
        ELSE IF ~IsInt(FromEnd(vals, 3))
             THEN [namespace |-> ns, ret |-> Raise("ValueError")]
        ELSE IF lower(FromEnd(vals, 2)) \notin AutoscaleAggregationKeys
             THEN [namespace |-> ns, ret |-> Raise(AutoscaleConditionUsage)]
        ELSE IF period_type(FromEnd(vals, 1)).err # "none"
             THEN [namespace |-> ns, ret |-> Raise("ValueError")]
        ELSE LET condition ==
                     MetricTrigger(
                         MetricName(vals), None, None, None,
                         period_type(FromEnd(vals, 1)).val,
                         MapValue("autoscale_aggregation", lower(FromEnd(vals, 2))),
                         MapValue("autoscale_operator", FromEnd(vals, 4)),
                         int(FromEnd(vals, 3)))
             IN  [namespace |-> [ns EXCEPT !.condition = Some(condition)], ret |-> Ok(None)]

\* --------------------------------- specification: AutoscaleConditionAction

InitAutoscaleCondition ==
    /\ op = "init"
    /\ args \in ConditionInputs(MaxNameWords)
    /\ ret = NoCall
    /\ namespace \in ConditionNamespaces

CallAutoscaleConditionAction ==
    /\ op = "init"
    /\ op' = "AutoscaleConditionAction"
    /\ namespace' = AutoscaleConditionAction(namespace, args).namespace
    /\ ret' = AutoscaleConditionAction(namespace, args).ret
    /\ UNCHANGED args

NextAutoscaleCondition == CallAutoscaleConditionAction

SpecAutoscaleCondition == InitAutoscaleCondition /\ [][NextAutoscaleCondition]_vars

\* C9: AutoscaleConditionAction fails with the one combined usage error, and
\* leaves the condition unchanged, whenever fewer than five tokens result, the
\* operator token is not in the autoscale operator map, or the lower-cased
\* aggregation token is not in the autoscale aggregation map.
C9_CoalescedUsageError ==
    [][op' = "AutoscaleConditionAction" =>
          LET toks == IF Len(args') = 1 THEN split(args'[1], " ") ELSE args'
          IN  (\/ Len(toks) < 5
               \/ toks[Len(toks) - 3] \notin AutoscaleOperatorKeys
               \/ lower(toks[Len(toks) - 1]) \notin AutoscaleAggregationKeys)
              => (/\ ret'.err = AutoscaleConditionUsage
                  /\ namespace'.condition = namespace.condition)]_vars

\* ---------------------------------------------------- AutoscaleScaleAction

ScaleUsage == "CLIError:usage error: --scale {in,out,to} VALUE[%]"

\* the scale type with the percent sign looked at before the direction
ScaleTypePercentFirst(dir_val, amt_val) ==
    IF endswith(amt_val, "%") THEN "percent_change_count"
    ELSE IF dir_val = <<"t","o">> THEN "exact_count"
    ELSE "change_count"

ScaleType(dir_val, amt_val) ==
    IF dir_val = <<"t","o">> THEN "exact_count"
    ELSE IF endswith(amt_val, "%") THEN "percent_change_count"
    ELSE "change_count"

\* amt_val after the branches: amt_val[:-1] in the percent branch only
ScaleValue(dir_val, amt_val) ==
    IF dir_val # <<"t","o">> /\ endswith(amt_val, "%")
    THEN SubSeq(amt_val, 1, Len(amt_val) - 1)
    ELSE amt_val

ScaleAction(direction, type, cooldown, value) ==
    [direction |-> direction, type |-> type, cooldown |-> cooldown, value |-> value]

\* the namespace and the outcome of AutoscaleScaleAction.__call__: the direction
\* is looked up while the ScaleAction is built, after the type is chosen
AutoscaleScaleAction(ns, values) ==
    LET vals == Resplit(values)
    IN  IF Len(vals) # 2 THEN [namespace |-> ns, ret |-> Raise(ScaleUsage)]
        ELSE IF vals[1] \notin ScaleDirectionKeys
             THEN [namespace |-> ns, ret |-> Raise("KeyError")]
        ELSE LET scale == ScaleAction(MapValue("scale_direction", vals[1]),
                                      ScaleType(vals[1], vals[2]),
                                      None,
                                      ScaleValue(vals[1], vals[2]))
             IN  [namespace |-> [ns EXCEPT !.scale = Some(scale)], ret |-> Ok(None)]

\* ------------------------------------- specification: AutoscaleScaleAction

MaxScaleTokens == 3

DirectionTokens == {<<"t","o">>, <<"i","n">>, <<"o","u","t">>, <<"u","p">>, <<"T","O">>}

AmountTokens == {<<"5">>, <<"1","0","%">>, <<"%">>, <<"-","2">>, <<>>}

\* nothing, or a direction token and further tokens, at most n in all
TokenScales(n) ==
    {<<>>} \cup {<<d>> \o rest : d \in DirectionTokens, rest \in SeqsUpTo(AmountTokens, n - 1)}

\* those, and the same quoted: one token holding the whole expression
ScaleInputs(n) == TokenScales(n) \cup {<<join(<<" ">>, v)>> : v \in TokenScales(n)}

PresetScale == Some(ScaleAction(MapValue("scale_direction", <<"i","n">>), "change_count", None, <<"1">>))

InitScale ==
    /\ op = "init"
    /\ args \in ScaleInputs(MaxScaleTokens)
    /\ ret = NoCall
    /\ namespace \in {EmptyNamespace, [EmptyNamespace EXCEPT !.scale = PresetScale]}

CallAutoscaleScaleAction ==
    /\ op = "init"
    /\ op' = "AutoscaleScaleAction"
    /\ namespace' = AutoscaleScaleAction(namespace, args).namespace
    /\ ret' = AutoscaleScaleAction(namespace, args).ret
    /\ UNCHANGED args

NextScale == CallAutoscaleScaleAction

SpecScale == InitScale /\ [][NextScale]_vars

\* what the claim says of two tokens (direction, amount)
ScaleAsClaimed(r, scale, toks) ==
    /\ r.err = "none"
    /\ scale.some
    /\ scale.val.cooldown = None
    /\ IF toks[1] = <<"t","o">> THEN scale.val.type = "exact_count"
       ELSE IF Len(toks[2]) > 0 /\ toks[2][Len(toks[2])] = "%"
            THEN /\ scale.val.type = "percent_change_count"
                 /\ scale.val.value = [i \in 1..(Len(toks[2]) - 1) |-> toks[2][i]]
       ELSE /\ scale.val.type = "change_count"
            /\ scale.val.value = toks[2]

\* C3 as stated: AutoscaleScaleAction fails with the usage error for every token
\* count other than 2, and with 2 tokens stores exactCount for direction 'to',
\* else percentChange and the amount without its '%' when the amount ends with
\* '%', else absoluteChange and the amount as given, the cooldown unset.
C3_ScaleAsStated ==
    [][op' = "AutoscaleScaleAction" =>
          LET toks == IF Len(args') = 1 THEN split(args'[1], " ") ELSE args'
          IN  IF Len(toks) # 2
              THEN ret'.err = ScaleUsage /\ namespace'.scale = namespace.scale
              ELSE ScaleAsClaimed(ret', namespace'.scale, toks)]_vars

\* C3 amended: as stated for a direction token that is a key of the direction
\* map; with two tokens and any other direction token the lookup fails with a key
\* error and the scale is left unchanged.
C3_ScaleKnownDirection ==
    [][op' = "AutoscaleScaleAction" =>
          LET toks == IF Len(args') = 1 THEN split(args'[1], " ") ELSE args'
          IN  IF Len(toks) # 2
              THEN ret'.err = ScaleUsage /\ namespace'.scale = namespace.scale
              ELSE IF toks[1] \in ScaleDirectionKeys
                   THEN ScaleAsClaimed(ret', namespace'.scale, toks)
                   ELSE ret'.err = "KeyError" /\ namespace'.scale = namespace.scale]_vars

C3_Witness ==
    /\ op = "AutoscaleScaleAction"
    /\ args = <<<<"o","u","t">>, <<"1","0","%">>>>
    /\ namespace.scale.some
    /\ namespace.scale.val.type = "percent_change_count"
    /\ namespace.scale.val.value = <<"1","0">>
    /\ namespace.scale.val.cooldown = None

\* ------------------------------------ AlertAddAction, AutoscaleAddAction

WebhookUsage == "CLIError:usage error: {} webhook URI [KEY=VALUE ...]"

TypeUsage == "CLIError:usage error: {} TYPE KEY [ARGS]"

\* dict(pairs): a later pair replaces an earlier one with the same key
RECURSIVE dict(_)
dict(pairs) ==
    IF pairs = <<>> THEN [k \in {} |-> <<>>]
    ELSE LET earlier == dict(SubSeq(pairs, 1, Len(pairs) - 1))
             last    == pairs[Len(pairs)]
         IN  [k \in (DOMAIN earlier) \cup {last[1]} |->
                 IF k = last[1] THEN last[2] ELSE earlier[k]]

\* values[from:] with the first token numbered 0
From(values, from) == IF Len(values) <= from THEN <<>> ELSE SubSeq(values, from + 1, Len(values))

\* x.split('=', 1) for x in values[2:]
KeyValuePairs(values) == [i \in 1..Len(From(values, 2)) |-> split1(From(values, 2)[i], "=")]

\* get_action of both classes: they differ in the two constructors only
get_action(values, email, webhook) ==
    IF Len(values) < 1 THEN Raise("IndexError")
    ELSE IF lower(values[1]) = <<"e","m","a","i","l">>
         THEN Ok([class |-> email, custom_emails |-> From(values, 1)])
    ELSE IF lower(values[1]) = <<"w","e","b","h","o","o","k">>
         THEN IF Len(values) < 2 THEN Raise("IndexError")
              ELSE IF \E i \in 1..Len(KeyValuePairs(values)) : Len(KeyValuePairs(values)[i]) # 2
                   THEN Raise(WebhookUsage)
              ELSE Ok([class |-> webhook, service_uri |-> values[2],
                       properties |-> dict(KeyValuePairs(values))])
    ELSE Raise(TypeUsage)

AlertAddAction_get_action(values) == get_action(values, "RuleEmailAction", "RuleWebhookAction")

AutoscaleAddAction_get_action(values) == get_action(values, "EmailNotification", "WebhookNotification")

\* the accumulator as a store action would leave it: the new value alone
StoreAction(ns, value) == [ns EXCEPT !.add_actions = Some(<<value>>)]

\* argparse._AppendAction.__call__: a copy of the list of the destination, or a
\* new list when it is None, with the value appended, is set on the namespace
AppendAction(ns, value) ==
    LET items == IF ns.add_actions = None THEN <<>> ELSE ns.add_actions.val
    IN  [ns EXCEPT !.add_actions = Some(Append(items, value))]

\* __call__: get_action raises before the accumulator is touched
AlertAddAction(ns, values) ==
    LET action == AlertAddAction_get_action(values)
    IN  IF action.err # "none" THEN [namespace |-> ns, ret |-> action]
        ELSE [namespace |-> AppendAction(ns, action.val), ret |-> Ok(None)]

AutoscaleAddAction(ns, values) ==
    LET action == AutoscaleAddAction_get_action(values)
    IN  IF action.err # "none" THEN [namespace |-> ns, ret |-> action]
        ELSE [namespace |-> AppendAction(ns, action.val), ret |-> Ok(None)]

\* ------------------------------------------- specification: get_action

MaxActionArgs == 3

tUri == <<"h","t","t","p",":","/","/","x">>

TagTokens == {<<"e","m","a","i","l">>, <<"E","m","a","i","l">>, <<"w","e","b","h","o","o","k">>,
              <<"W","E","B","H","O","O","K">>, <<"s","m","s">>, <<>>}

ArgTokens == {<<"a","@","b">>, tUri, <<"k","1","=","v","1">>, <<"k","2","=","a","=","b">>,
              <<"k","1","=","z">>, <<"b","a","d">>, <<"=","v">>, <<>>}

\* no token, or a tag and at most n further tokens
GetActionInputs(n) ==
    {<<>>} \cup {<<tag>> \o rest : tag \in TagTokens, rest \in SeqsUpTo(ArgTokens, n)}

InitGetAction ==
    /\ op = "init"
    /\ args \in GetActionInputs(MaxActionArgs)
    /\ ret = NoCall
    /\ namespace = EmptyNamespace

CallAlertGetAction ==
    /\ op = "init"
    /\ op' = "AlertAddAction.get_action"
    /\ ret' = AlertAddAction_get_action(args)
    /\ UNCHANGED <<args, namespace>>

CallAutoscaleGetAction ==
    /\ op = "init"
    /\ op' = "AutoscaleAddAction.get_action"
    /\ ret' = AutoscaleAddAction_get_action(args)
    /\ UNCHANGED <<args, namespace>>

NextGetAction == CallAlertGetAction \/ CallAutoscaleGetAction

SpecGetAction == InitGetAction /\ [][NextGetAction]_vars

FirstEquals(t) == CHOOSE i \in 1..Len(t) : t[i] = "=" /\ \A j \in 1..(i - 1) : t[j] # "="

KeyOf(t) == [i \in 1..(FirstEquals(t) - 1) |-> t[i]]

ValueOf(t) == [i \in 1..(Len(t) - FirstEquals(t)) |-> t[FirstEquals(t) + i]]

\* the mapping the tokens give: every key, and for a token whose key no later
\* token repeats, its value
PropertiesOf(props, rest) ==
    /\ DOMAIN props = {KeyOf(rest[i]) : i \in 1..Len(rest)}
    /\ \A i \in 1..Len(rest) :
          (\A j \in (i + 1)..Len(rest) : KeyOf(rest[j]) # KeyOf(rest[i]))
              => props[KeyOf(rest[i])] = ValueOf(rest[i])

EmailClass == [Alert |-> "RuleEmailAction", Autoscale |-> "EmailNotification"]

WebhookClass == [Alert |-> "RuleWebhookAction", Autoscale |-> "WebhookNotification"]

GetActionAsClaimed(r, values, which) ==
    LET tag  == lower(values[1])
        rest == [i \in 1..(Len(values) - 2) |-> values[i + 2]]
    IN  IF tag = <<"e","m","a","i","l">>
        THEN /\ r.err = "none"
             /\ r.val.class = EmailClass[which]
             /\ r.val.custom_emails = Tail(values)
        ELSE IF tag = <<"w","e","b","h","o","o","k">>
        THEN Len(values) >= 2 =>
                IF \A i \in 1..Len(rest) : IsIn("=", rest[i])
                THEN /\ r.err = "none"
                     /\ r.val.class = WebhookClass[which]
                     /\ r.val.service_uri = values[2]
                     /\ PropertiesOf(r.val.properties, rest)
                ELSE r.err = WebhookUsage
        ELSE r.err = TypeUsage

\* C4: get_action of AlertAddAction and of AutoscaleAddAction compares token 0
\* lower-cased: 'email' builds the email action whose recipients are the
\* remaining tokens in order; 'webhook' takes token 1 as the URI and builds the
\* properties from every remaining token split on its first '=', failing with
\* the usage error when one of them holds no '='; any other tag fails with the
\* usage error.
C4_GetAction ==
    /\ (op = "AlertAddAction.get_action" /\ Len(args) >= 1)
           => GetActionAsClaimed(ret, args, "Alert")
    /\ (op = "AutoscaleAddAction.get_action" /\ Len(args) >= 1)
           => GetActionAsClaimed(ret, args, "Autoscale")

C4_Witness ==
    /\ op = "AutoscaleAddAction.get_action"
    /\ args = <<<<"W","E","B","H","O","O","K">>, tUri, <<"k","1","=","v","1">>,
                <<"k","2","=","a","=","b">>>>
    /\ ret.err = "none"
    /\ ret.val.properties[<<"k","1">>] = <<"v","1">>
    /\ ret.val.properties[<<"k","2">>] = <<"a","=","b">>

\* ---------------------------------- specification: the add-action accumulator

MaxActions == 3

AddActionInputs ==
    {<<<<"e","m","a","i","l">>, <<"a","@","b">>>>,
     <<<<"W","e","b","h","o","o","k">>, tUri, <<"k","1","=","v","1">>>>,
     <<<<"w","e","b","h","o","o","k">>, tUri, <<"b","a","d">>>>,
     <<<<"s","m","s">>, <<"1">>>>,
     <<<<"w","e","b","h","o","o","k">>>>,
     <<>>}

Items(ns) == IF ns.add_actions = None THEN <<>> ELSE ns.add_actions.val

InitAddAction ==
    /\ op = "init"
    /\ args = <<>>
    /\ ret = NoCall
    /\ namespace = EmptyNamespace

InvokeAlertAddAction(values) ==
    /\ Len(Items(namespace)) < MaxActions
    /\ op' = "AlertAddAction"
    /\ args' = values
    /\ namespace' = AlertAddAction(namespace, values).namespace
    /\ ret' = AlertAddAction(namespace, values).ret

InvokeAutoscaleAddAction(values) ==
    /\ Len(Items(namespace)) < MaxActions
    /\ op' = "AutoscaleAddAction"
    /\ args' = values
    /\ namespace' = AutoscaleAddAction(namespace, values).namespace
    /\ ret' = AutoscaleAddAction(namespace, values).ret

NextAddAction ==
    \E values \in AddActionInputs :
        InvokeAlertAddAction(values) \/ InvokeAutoscaleAddAction(values)

SpecAddAction == InitAddAction /\ [][NextAddAction]_vars

BuiltBy(name, values) ==
    IF name = "AlertAddAction" THEN AlertAddAction_get_action(values)
    ELSE AutoscaleAddAction_get_action(values)

\* C1: a successful add-action invocation appends its one element after the
\* elements already in the accumulator, which it neither removes, replaces nor
\* reorders (so N successes give N elements, in invocation order); a failing
\* invocation leaves the accumulator unchanged.
C1_AccumulatorAppendOnly ==
    [][op' \in {"AlertAddAction", "AutoscaleAddAction"} =>
          IF ret'.err = "none"
          THEN /\ Len(Items(namespace')) = Len(Items(namespace)) + 1
               /\ \A i \in 1..Len(Items(namespace)) : Items(namespace')[i] = Items(namespace)[i]
               /\ Items(namespace')[Len(Items(namespace'))] = BuiltBy(op', args').val
          ELSE namespace'.add_actions = namespace.add_actions]_vars

C1_Witness ==
    /\ op = "AutoscaleAddAction"
    /\ ret.err = WebhookUsage
    /\ Len(Items(namespace)) = 2
    /\ Items(namespace)[1].class = "RuleEmailAction"
    /\ Items(namespace)[2].class = "WebhookNotification"

====
